---- MODULE Spec2Model ----
(***************************************************************************)
(* Model of autopath's configuration generators:                           *)
(*   generate_config.py        the single-project Config Generator         *)
(*   batch_generate_config.py  the Batch Driver                            *)
(* Strings are sequences of one-character strings, so that strip, lower,   *)
(* split and template substitution are computed character by character.    *)
(***************************************************************************)
EXTENDS Integers, Sequences, FiniteSets, TLC

VARIABLES
    \* ---- project-key derivation (protocol_to_key as a pure function)
    kpc,          \* "in" | "keyed" | "rekeyed" | "off"
    protocol,     \* a protocol name
    other,        \* a second protocol name
    key1,         \* protocol_to_key(protocol)
    key2,         \* protocol_to_key(other)
    rekey,        \* protocol_to_key(key1)
    \* ---- batch_generate_config.py: main()
    bpc,           \* "start" | "loop" | "done" | "raised" | "off"
    args,          \* the parsed command line
    extracted,     \* EXTRACTED_ROOT: whether it exists, and its entries
    genTemplates,  \* protocols P with GENERATED_ROOT/P/<key>_dynamic.json.tmpl
    fbTemplates,   \* keys K with TEMPLATE_FALLBACK_ROOT/<K>_dynamic.json.tmpl
    outRoot,       \* whether the directory OUTPUT_ROOT exists
    outputs,       \* the files under OUTPUT_ROOT: file name -> content
    disk0,         \* outRoot and outputs as they were when the run started
    protocol_list,
    idx,           \* position of the for loop in protocol_list
    success,
    skipped,
    failed,
    log,           \* what was done for each protocol processed so far
    exitCode,
    \* ---- generate_config.py: main()
    gpc,           \* "start" | "mapped" | "rendered" | "exit" | "off"
    gargs,         \* the parsed command line
    registry,      \* DEFAULT_PROJECTS
    deployFiles,   \* the deployment files on disk: path -> JSON object
    templateFiles, \* the template files on disk: path -> text
    gtemplate_path, \* template_path of generate_config.py
    goutput_path,  \* output_path of generate_config.py
    merged,        \* mapping after line 105
    mapping,       \* mapping after line 108
    warned,        \* whether the missing-deployment warning was printed
    rendered,      \* the template's text after substitution
    parsed,        \* whether json.loads was reached
    config,
    outFiles,      \* the output files written: path -> config
    gerror,        \* the error that ended the run, or None
    gexit          \* the exit status

keyVars == <<kpc, protocol, other, key1, key2, rekey>>

batchVars == <<bpc, args, extracted, genTemplates, fbTemplates, outRoot, outputs,
               disk0, protocol_list, idx, success, skipped, failed, log, exitCode>>

genVars == <<gpc, gargs, registry, deployFiles, templateFiles, gtemplate_path,
             goutput_path, merged, mapping, warned, rendered, parsed, config,
             outFiles, gerror, gexit>>

vars == <<keyVars, batchVars, genVars>>

None == "None"

(***************************************************************************)
(* Bounds of the model.                                                    *)
(***************************************************************************)
MaxNameTokens == 3

(***************************************************************************)
(* Python str helpers, on sequences of characters.                         *)
(***************************************************************************)
UpperLetters ==
    <<"A","B","C","D","E","F","G","H","I","J","K","L","M",
      "N","O","P","Q","R","S","T","U","V","W","X","Y","Z">>

LowerLetters ==
    <<"a","b","c","d","e","f","g","h","i","j","k","l","m",
      "n","o","p","q","r","s","t","u","v","w","x","y","z">>

Whitespace == {" ", "\t", "\n"}

IsUpper(c) == \E i \in DOMAIN UpperLetters : UpperLetters[i] = c

IsLower(c) == \E i \in DOMAIN LowerLetters : LowerLetters[i] = c

LowerChar(c) ==
    IF IsUpper(c)
    THEN LowerLetters[CHOOSE i \in DOMAIN UpperLetters : UpperLetters[i] = c]
    ELSE c

UpperChar(c) ==
    IF IsLower(c)
    THEN UpperLetters[CHOOSE i \in DOMAIN LowerLetters : LowerLetters[i] = c]
    ELSE c

\* str.lower()
Lower(s) == [i \in 1..Len(s) |-> LowerChar(s[i])]

RECURSIVE LStrip(_)
LStrip(s) ==
    IF s = <<>> THEN s
    ELSE IF Head(s) \in Whitespace THEN LStrip(Tail(s)) ELSE s

RECURSIVE RStrip(_)
RStrip(s) ==
    IF s = <<>> THEN s
    ELSE IF s[Len(s)] \in Whitespace THEN RStrip(SubSeq(s, 1, Len(s) - 1)) ELSE s

\* str.strip()
Strip(s) == RStrip(LStrip(s))

\* str.replace(from, to) for one-character from and to
Replace(s, from, to) == [i \in 1..Len(s) |-> IF s[i] = from THEN to ELSE s[i]]

\* str.endswith(suffix)
EndsWith(s, suffix) ==
    /\ Len(s) >= Len(suffix)
    /\ SubSeq(s, Len(s) - Len(suffix) + 1, Len(s)) = suffix

RECURSIVE Flatten(_)
Flatten(ss) == IF ss = <<>> THEN <<>> ELSE Head(ss) \o Flatten(Tail(ss))

(***************************************************************************)
(* batch_generate_config.py: protocol_to_key                               *)
(***************************************************************************)
ExpSuffix == <<"_", "e", "x", "p">>

\* mutant: the name is not lower-cased
protocol_to_key_nolower(name) ==
    LET key == Replace(Strip(name), " ", "_")
    IN  IF EndsWith(key, ExpSuffix) THEN SubSeq(key, 1, Len(key) - 4) ELSE key

protocol_to_key(name) ==
    LET key == Replace(Lower(Strip(name)), " ", "_")
    IN  IF EndsWith(key, ExpSuffix) THEN SubSeq(key, 1, Len(key) - 4) ELSE key

(***************************************************************************)
(* batch_generate_config.py: selecting the protocols                       *)
(***************************************************************************)
\* str.split(sep) for a one-character sep
RECURSIVE Split(_, _)
Split(s, sep) ==
    IF s = <<>> THEN << <<>> >>
    ELSE IF Head(s) = sep THEN << <<>> >> \o Split(Tail(s), sep)
    ELSE LET rest == Split(Tail(s), sep)
         IN  << <<Head(s)>> \o Head(rest) >> \o Tail(rest)

NonEmpty(s) == s # <<>>

\* [p.strip() for p in entry.split(",") if p.strip()]
Parts(entry) ==
    LET pieces == Split(entry, ",")
    IN  SelectSeq([i \in DOMAIN pieces |-> Strip(pieces[i])], NonEmpty)

Contains(seq, x) == \E i \in DOMAIN seq : seq[i] = x

\* the seen/result loop: first occurrences, in order
RECURSIVE AppendUnseen(_, _)
AppendUnseen(result, names) ==
    IF names = <<>> THEN result
    ELSE AppendUnseen(
            IF Contains(result, Head(names)) THEN result
            ELSE Append(result, Head(names)),
            Tail(names))

\* protocol_args is <<>> when --protocols is not given (Python's None)
parse_protocols(protocol_args) ==
    IF protocol_args = <<>> THEN <<>>
    ELSE AppendUnseen(<<>>,
            Flatten([i \in DOMAIN protocol_args |-> Parts(protocol_args[i])]))

\* the characters of the model in code-point order, for sorted()
Ascii ==
    <<"\t", "\n", " ", "$", ",", "-", "0", "1", "2", "3", "4", "5", "6", "7",
      "8", "9", "=">> \o UpperLetters \o <<"_">> \o LowerLetters \o <<"{", "}">>

Ord(c) == CHOOSE i \in DOMAIN Ascii : Ascii[i] = c

RECURSIVE StrLess(_, _)
StrLess(a, b) ==
    IF a = <<>> THEN b # <<>>
    ELSE IF b = <<>> THEN FALSE
    ELSE IF Head(a) = Head(b) THEN StrLess(Tail(a), Tail(b))
    ELSE Ord(Head(a)) < Ord(Head(b))

\* sorted(names) of distinct names
RECURSIVE Sorted(_)
Sorted(S) ==
    IF S = {} THEN <<>>
    ELSE LET m == CHOOSE x \in S : \A y \in S \ {x} : StrLess(x, y)
         IN  <<m>> \o Sorted(S \ {m})

DirNames(entries) == { e.name : e \in { x \in entries : x.isDir } }

\* line 78: the stripped item is not seven characters with "-" as the fifth
FilterRejected(item) == Len(item) # 7 \/ item[5] # "-"

\* collect_protocols(filters) on the tree root: what it raises, or its list
collect_protocols(root, filters) ==
    IF ~root.exists
    THEN [raised |-> "FileNotFoundError", value |-> <<>>]
    ELSE
      LET items == SelectSeq([i \in DOMAIN filters |-> Strip(filters[i])], NonEmpty)
          normalized_filters == { items[i] : i \in DOMAIN items }
          year_month_dirs == Sorted(DirNames(root.entries))
          Children(m) == (CHOOSE e \in root.entries : e.name = m /\ e.isDir).children
          Scan(m) ==
              IF normalized_filters # {} /\ m \notin normalized_filters
              THEN <<>>
              ELSE Sorted(DirNames(Children(m)))
      IN  IF \E i \in DOMAIN items : FilterRejected(items[i])
          THEN [raised |-> "ValueError", value |-> <<>>]
          ELSE [raised |-> None,
                value |-> Flatten([i \in DOMAIN year_month_dirs |->
                                      Scan(year_month_dirs[i])])]

(***************************************************************************)
(* batch_generate_config.py: the paths of one protocol                     *)
(***************************************************************************)
\* mutant: the file name does not depend on the project key
OutputPath_fixed(project_key) == <<"o", "u", "t", ".", "j", "s", "o", "n">>

\* OUTPUT_ROOT / f"{project_key}.json", as the file's name under OUTPUT_ROOT
OutputPath(project_key) == project_key \o <<".", "j", "s", "o", "n">>

\* mutant: the fallback directory is never consulted
ResolveTemplate_nofallback(name, gen, fb) == [root |-> "generated", at |-> name]

\* template_path after lines 169-173: the generated path, or the fallback
\* path when the generated one is absent and the fallback exists
ResolveTemplate(name, gen, fb) ==
    IF name \notin gen /\ protocol_to_key(name) \in fb
    THEN [root |-> "fallback", at |-> protocol_to_key(name)]
    ELSE [root |-> "generated", at |-> name]

\* template_path.exists()
PathExists(path, gen, fb) ==
    IF path.root = "generated" THEN path.at \in gen ELSE path.at \in fb

\* mutant: the exit code is non-zero only from the second failure on
ExitStatus_late(nfailed) == IF nfailed <= 1 THEN 0 ELSE 1

\* return 0 if failed == 0 else 1
ExitStatus(nfailed) == IF nfailed = 0 THEN 0 ELSE 1

(***************************************************************************)
(* generate_config.py: the mapping                                         *)
(***************************************************************************)
\* a JSON null / Python None as a mapping value; every other value is a string
PyNull == <<"null">>

EmptyMap == [k \in {} |-> <<>>]

\* dict.update
Update(m, n) ==
    [k \in DOMAIN m \cup DOMAIN n |-> IF k \in DOMAIN n THEN n[k] ELSE m[k]]

\* dict.setdefault
SetDefault(m, k, v) == IF k \in DOMAIN m THEN m ELSE Update(m, [x \in {k} |-> v])

RECURSIVE IndexOf(_, _, _)
IndexOf(s, c, i) ==
    IF i > Len(s) THEN 0 ELSE IF s[i] = c THEN i ELSE IndexOf(s, c, i + 1)

\* parse_kv: what it raises, or the dict of key.strip() -> value.strip(),
\* splitting each item at its first "="
RECURSIVE parse_kv_from(_, _)
parse_kv_from(pairs, result) ==
    IF pairs = <<>> THEN [raised |-> None, value |-> result]
    ELSE LET item == Head(pairs)
             eq == IndexOf(item, "=", 1)
             key == Strip(SubSeq(item, 1, eq - 1))
             value == Strip(SubSeq(item, eq + 1, Len(item)))
         IN  IF eq = 0 THEN [raised |-> "ValueError", value |-> EmptyMap]
             ELSE parse_kv_from(Tail(pairs), Update(result, [x \in {key} |-> value]))

parse_kv(pairs) == parse_kv_from(pairs, EmptyMap)

\* mutant: the deployment file is merged over the built-in defaults
MergeLayers_deploy_last(deployment, default_vars, overrides) ==
    Update(Update(Update(EmptyMap, default_vars), deployment), overrides)

\* lines 96-105: deployment fields, then defaults["vars"], then --var pairs
MergeLayers(deployment, default_vars, overrides) ==
    Update(Update(Update(EmptyMap, deployment), default_vars), overrides)

KeyProjectId == <<"p", "r", "o", "j", "e", "c", "t", "_", "i", "d">>

KeyProjectName == <<"p", "r", "o", "j", "e", "c", "t", "_", "n", "a", "m", "e">>

KeyConfigPath == <<"c", "o", "n", "f", "i", "g", "_", "p", "a", "t", "h">>

IsLetter(c) == IsUpper(c) \/ IsLower(c)

\* str.title()
Title(s) ==
    [i \in 1..Len(s) |->
        IF i = 1 \/ ~IsLetter(s[i - 1]) THEN UpperChar(s[i]) ELSE LowerChar(s[i])]

DynamicSuffix == <<"-", "d", "y", "n", "a", "m", "i", "c">>

ProjectNameSuffix ==
    <<" ", "P", "r", "o", "j", "e", "c", "t", " ", "(", "D", "y", "n", "a", "m",
      "i", "c", ")">>

\* mutant: the fallbacks are assigned, not set by default
ApplyFallbacks_assign(m, project, output_path_) ==
    Update(m,
        [k \in {KeyProjectId, KeyProjectName, KeyConfigPath} |->
            IF k = KeyProjectId THEN project \o DynamicSuffix
            ELSE IF k = KeyProjectName THEN Title(project) \o ProjectNameSuffix
            ELSE output_path_])

\* lines 106-108
ApplyFallbacks(m, project, output_path_) ==
    SetDefault(
        SetDefault(
            SetDefault(m, KeyProjectId, project \o DynamicSuffix),
            KeyProjectName, Title(project) \o ProjectNameSuffix),
        KeyConfigPath, output_path_)

(***************************************************************************)
(* generate_config.py: generate_from_template                              *)
(***************************************************************************)
Digits == {"0", "1", "2", "3", "4", "5", "6", "7", "8", "9"}

IsIdStart(c) == c = "_" \/ IsLetter(c)

IsIdChar(c) == IsIdStart(c) \/ c \in Digits

RECURSIVE IdCharsLen(_)
IdCharsLen(s) ==
    IF s # <<>> /\ IsIdChar(Head(s)) THEN 1 + IdCharsLen(Tail(s)) ELSE 0

\* length of the longest prefix of s that is an identifier
IdLen(s) == IF s # <<>> /\ IsIdStart(Head(s)) THEN IdCharsLen(s) ELSE 0

Token(kind, name, text) == [kind |-> kind, name |-> name, text |-> text]

\* string.Template's pattern over the template, left to right: literal
\* characters and the matches $$ | $name | ${name} | $ (invalid)
RECURSIVE Tokenize(_)
Tokenize(t) ==
    IF t = <<>> THEN <<>>
    ELSE IF Head(t) # "$"
    THEN <<Token("literal", <<>>, <<Head(t)>>)>> \o Tokenize(Tail(t))
    ELSE
      LET rest == Tail(t)
          n == IdLen(rest)
          bn == IF rest # <<>> /\ Head(rest) = "{" THEN IdLen(Tail(rest)) ELSE 0
      IN  IF rest # <<>> /\ Head(rest) = "$"
          THEN <<Token("escaped", <<>>, <<"$", "$">>)>> \o Tokenize(Tail(rest))
          ELSE IF n > 0
          THEN <<Token("named", SubSeq(rest, 1, n), SubSeq(t, 1, n + 1))>>
                  \o Tokenize(SubSeq(rest, n + 1, Len(rest)))
          ELSE IF bn > 0 /\ Len(rest) >= bn + 2 /\ rest[bn + 2] = "}"
          THEN <<Token("braced", SubSeq(rest, 2, bn + 1), SubSeq(t, 1, bn + 3))>>
                  \o Tokenize(SubSeq(rest, bn + 3, Len(rest)))
          ELSE <<Token("invalid", <<>>, <<"$">>)>> \o Tokenize(rest)

\* mutant: a placeholder whose key is missing is replaced by nothing
Convert_drop(tok, m) ==
    IF tok.kind = "escaped" THEN <<"$">>
    ELSE IF tok.kind \in {"named", "braced"}
    THEN IF tok.name \in DOMAIN m THEN m[tok.name] ELSE <<>>
    ELSE tok.text

\* safe_substitute's convert: what one match is replaced by
Convert(tok, m) ==
    IF tok.kind = "escaped" THEN <<"$">>
    ELSE IF tok.kind \in {"named", "braced"}
    THEN IF tok.name \in DOMAIN m THEN m[tok.name] ELSE tok.text
    ELSE tok.text

\* Template(template_text).safe_substitute(m)
safe_substitute(template_text, m) ==
    LET toks == Tokenize(template_text)
    IN  Flatten([i \in DOMAIN toks |-> Convert(toks[i], m)])

\* line 60: "" if v is None else str(v)
StringMapping(m) == [k \in DOMAIN m |-> IF m[k] = PyNull THEN <<>> ELSE m[k]]

\* "${" in rendered
HasMarker(text) ==
    \E i \in 1..Len(text) - 1 : text[i] = "$" /\ text[i + 1] = "{"

(***************************************************************************)
(* json.loads, on texts without backslashes.  A value is a record: t is    *)
(* "str", "num", "lit", "list" or "dict"; s the text of a string, number   *)
(* or literal; items the elements of a list, or the <<key, value>> pairs   *)
(* of a dict.                                                              *)
(***************************************************************************)
JVal(t, sv, items) == [t |-> t, s |-> sv, items |-> items]

JFail == [ok |-> FALSE, v |-> JVal("lit", <<>>, <<>>), next |-> 0]

JOk(v, next) == [ok |-> TRUE, v |-> v, next |-> next]

JsonWhitespace == {" ", "\t", "\n", "\r"}

At(s, i, c) == i <= Len(s) /\ s[i] = c

RECURSIVE SkipWs(_, _)
SkipWs(s, i) == IF i <= Len(s) /\ s[i] \in JsonWhitespace THEN SkipWs(s, i + 1) ELSE i

\* index of the closing quote of the string opened before j, 0 if none
RECURSIVE StringEnd(_, _)
StringEnd(s, j) ==
    IF j > Len(s) THEN 0
    ELSE IF s[j] = "\"" THEN j
    ELSE IF s[j] \in {"\t", "\n", "\r"} THEN 0
    ELSE StringEnd(s, j + 1)

ParseString(s, i) ==
    LET j == StringEnd(s, i + 1)
    IN  IF j = 0 THEN JFail ELSE JOk(JVal("str", SubSeq(s, i + 1, j - 1), <<>>), j + 1)

RECURSIVE DigitsEnd(_, _)
DigitsEnd(s, i) == IF i <= Len(s) /\ s[i] \in Digits THEN DigitsEnd(s, i + 1) ELSE i

\* -?(0|[1-9][0-9]*)(\.[0-9]+)?([eE][-+]?[0-9]+)?
ParseNumber(s, i) ==
    LET i1 == IF At(s, i, "-") THEN i + 1 ELSE i
        intEnd == IF At(s, i1, "0") THEN i1 + 1 ELSE DigitsEnd(s, i1)
        fracEnd == IF At(s, intEnd, ".") /\ DigitsEnd(s, intEnd + 1) > intEnd + 1
                   THEN DigitsEnd(s, intEnd + 1) ELSE intEnd
        e1 == IF At(s, fracEnd + 1, "-") \/ At(s, fracEnd + 1, "+")
              THEN fracEnd + 2 ELSE fracEnd + 1
        expEnd == IF (At(s, fracEnd, "e") \/ At(s, fracEnd, "E")) /\ DigitsEnd(s, e1) > e1
                  THEN DigitsEnd(s, e1) ELSE fracEnd
    IN  IF intEnd = i1 THEN JFail
        ELSE JOk(JVal("num", SubSeq(s, i, expEnd - 1), <<>>), expEnd)

JsonLiterals ==
    { <<"n", "u", "l", "l">>, <<"t", "r", "u", "e">>, <<"f", "a", "l", "s", "e">>,
      <<"N", "a", "N">>, <<"I", "n", "f", "i", "n", "i", "t", "y">>,
      <<"-", "I", "n", "f", "i", "n", "i", "t", "y">> }

StartsAt(s, i, lit) == Len(s) >= i + Len(lit) - 1 /\ SubSeq(s, i, i + Len(lit) - 1) = lit

ParseLiteral(s, i) ==
    IF \E lit \in JsonLiterals : StartsAt(s, i, lit)
    THEN LET lit == CHOOSE l \in JsonLiterals : StartsAt(s, i, l)
         IN  JOk(JVal("lit", lit, <<>>), i + Len(lit))
    ELSE JFail

\* dict[key] = value: a repeated key keeps its place and takes the new value
PutPair(pairs, key, value) ==
    IF \E i \in DOMAIN pairs : pairs[i][1] = key
    THEN [i \in DOMAIN pairs |-> IF pairs[i][1] = key THEN <<key, value>> ELSE pairs[i]]
    ELSE Append(pairs, <<key, value>>)

RECURSIVE ParseValue(_, _)
RECURSIVE ParseElements(_, _, _)
RECURSIVE ParseMembers(_, _, _)

\* the value that starts at s[i]
ParseValue(s, i) ==
    IF i > Len(s) THEN JFail
    ELSE IF s[i] = "\"" THEN ParseString(s, i)
    ELSE IF s[i] = "["
    THEN LET j == SkipWs(s, i + 1)
         IN  IF At(s, j, "]") THEN JOk(JVal("list", <<>>, <<>>), j + 1)
             ELSE ParseElements(s, j, <<>>)
    ELSE IF s[i] = "{"
    THEN LET j == SkipWs(s, i + 1)
         IN  IF At(s, j, "}") THEN JOk(JVal("dict", <<>>, <<>>), j + 1)
             ELSE ParseMembers(s, j, <<>>)
    ELSE IF s[i] \in Digits \/ (s[i] = "-" /\ ~At(s, i + 1, "I"))
    THEN ParseNumber(s, i)
    ELSE ParseLiteral(s, i)

\* the elements of a list from s[j] on, after those in acc
ParseElements(s, j, acc) ==
    LET r == ParseValue(s, j)
        k == SkipWs(s, r.next)
    IN  IF ~r.ok THEN JFail
        ELSE IF At(s, k, ",") THEN ParseElements(s, SkipWs(s, k + 1), Append(acc, r.v))
        ELSE IF At(s, k, "]") THEN JOk(JVal("list", <<>>, Append(acc, r.v)), k + 1)
        ELSE JFail

\* the "key": value members of a dict from s[j] on, after those in acc
ParseMembers(s, j, acc) ==
    LET key == IF At(s, j, "\"") THEN ParseString(s, j) ELSE JFail
        colon == SkipWs(s, key.next)
        r == ParseValue(s, SkipWs(s, colon + 1))
        k == SkipWs(s, r.next)
    IN  IF ~key.ok \/ ~At(s, colon, ":") THEN JFail
        ELSE IF ~r.ok THEN JFail
        ELSE IF At(s, k, ",")
        THEN ParseMembers(s, SkipWs(s, k + 1), PutPair(acc, key.v.s, r.v))
        ELSE IF At(s, k, "}")
        THEN JOk(JVal("dict", <<>>, PutPair(acc, key.v.s, r.v)), k + 1)
        ELSE JFail

\* json.loads(text): ok is FALSE where it raises JSONDecodeError
json_loads(text) ==
    LET r == ParseValue(text, SkipWs(text, 1))
    IN  IF r.ok /\ SkipWs(text, r.next) = Len(text) + 1
        THEN [ok |-> TRUE, v |-> r.v]
        ELSE [ok |-> FALSE, v |-> JFail.v]

IsEmptyString(v) == v.t = "str" /\ v.s = <<>>

KeepsInList(v) == ~IsEmptyString(v)

RECURSIVE cleanup_config(_)
cleanup_config(value) ==
    IF value.t = "list"
    THEN JVal("list", <<>>,
            SelectSeq([i \in DOMAIN value.items |-> cleanup_config(value.items[i])],
                      KeepsInList))
    ELSE IF value.t = "dict"
    THEN JVal("dict", <<>>,
            [i \in DOMAIN value.items |->
                <<value.items[i][1], cleanup_config(value.items[i][2])>>])
    ELSE value

\* generate_from_template(template_path, mapping) on the template's text:
\* the error it raises or the cleaned config
generate_from_template(template_text, m) ==
    LET text == safe_substitute(template_text, StringMapping(m))
        data == json_loads(text)
    IN  IF HasMarker(text)
        THEN [raised |-> "ValueError", rendered |-> text, parsed |-> FALSE,
              config |-> JFail.v]
        ELSE IF ~data.ok
        THEN [raised |-> "JSONDecodeError", rendered |-> text, parsed |-> TRUE,
              config |-> JFail.v]
        ELSE [raised |-> None, rendered |-> text, parsed |-> TRUE,
              config |-> cleanup_config(data.v)]

KeyContracts == <<"c", "o", "n", "t", "r", "a", "c", "t", "s">>

\* lines 115-122 raise when config has no get(), or its "contracts" has no
\* len() or cannot be sliced
SummaryRaises(cfg) ==
    \/ cfg.t # "dict"
    \/ \E i \in DOMAIN cfg.items :
          /\ cfg.items[i][1] = KeyContracts
          /\ \/ cfg.items[i][2].t \in {"num", "lit"}
             \/ cfg.items[i][2].t = "dict" /\ cfg.items[i][2].items # <<>>

(***************************************************************************)
(* Specification SpecKey: protocol_to_key applied to bounded names.        *)
(***************************************************************************)
NameTokens ==
    { <<"a">>, <<"A">>, <<" ">>, <<"\t">>, <<"_">>,
      <<"_","e","x","p">>, <<"_","E","X","P">>, <<"_","e","X","p">> }

\* the tokens that differ from t in letter case only
CaseVariants(t) == { u \in NameTokens : Lower(u) = Lower(t) }

\* pairs <<name, variant>> of at most n tokens each, the variant differing
\* from the name in letter case only
RECURSIVE NamePairs(_)
NamePairs(n) ==
    IF n = 0 THEN { << <<>>, <<>> >> }
    ELSE LET shorter == NamePairs(n - 1)
         IN  shorter \cup
             UNION { { <<p[1] \o t, p[2] \o u>> :
                         p \in shorter, u \in CaseVariants(t) } :
                     t \in NameTokens }

BatchOff ==
    /\ bpc = "off"
    /\ args = None
    /\ extracted = [exists |-> FALSE, entries |-> {}]
    /\ genTemplates = {}
    /\ fbTemplates = {}
    /\ outRoot = FALSE
    /\ outputs = <<>>
    /\ disk0 = None
    /\ protocol_list = <<>>
    /\ idx = 0
    /\ success = 0
    /\ skipped = 0
    /\ failed = 0
    /\ log = <<>>
    /\ exitCode = None

GenOff ==
    /\ gpc = "off"
    /\ gargs = None
    /\ registry = None
    /\ deployFiles = <<>>
    /\ templateFiles = <<>>
    /\ gtemplate_path = None
    /\ goutput_path = None
    /\ merged = <<>>
    /\ mapping = <<>>
    /\ warned = FALSE
    /\ rendered = None
    /\ parsed = FALSE
    /\ config = None
    /\ outFiles = <<>>
    /\ gerror = None
    /\ gexit = None

KeyOff ==
    /\ kpc = "off"
    /\ protocol = None
    /\ other = None
    /\ key1 = None
    /\ key2 = None
    /\ rekey = None

KeyInit ==
    /\ BatchOff
    /\ GenOff
    /\ kpc = "in"
    /\ \E p \in NamePairs(MaxNameTokens) :
            /\ protocol = p[1]
            /\ other = p[2]
    /\ key1 = None
    /\ key2 = None
    /\ rekey = None

DeriveKey ==
    /\ kpc = "in"
    /\ key1' = protocol_to_key(protocol)
    /\ key2' = protocol_to_key(other)
    /\ kpc' = "keyed"
    /\ UNCHANGED <<protocol, other, rekey, batchVars, genVars>>

RederiveKey ==
    /\ kpc = "keyed"
    /\ rekey' = protocol_to_key(key1)
    /\ kpc' = "rekeyed"
    /\ UNCHANGED <<protocol, other, key1, key2, batchVars, genVars>>

KeyNext == DeriveKey \/ RederiveKey

SpecKey == KeyInit /\ [][KeyNext]_vars

(***************************************************************************)
(* Specification Spec: one run of batch_generate_config.py main().         *)
(***************************************************************************)
MaxProtocolArgs == 2

M01 == <<"2", "0", "2", "4", "-", "0", "1">>

M02 == <<"2", "0", "2", "4", "-", "0", "2">>

NameA == <<"A">>

NameAExp == <<"a", "_", "e", "x", "p">>

NameB == <<"b">>

\* values of one --protocols option
EntryChoices ==
    { NameA,
      NameAExp \o <<",">> \o NameB,
      <<" ">> \o NameB \o <<" ", ",", ",">> \o NameA,
      <<>> }

RECURSIVE SeqsUpTo(_, _)
SeqsUpTo(S, n) ==
    IF n = 0 THEN { <<>> }
    ELSE LET shorter == SeqsUpTo(S, n - 1)
         IN  shorter \cup { Append(q, x) : q \in shorter, x \in S }

\* args.protocols: <<>> when the option is not given
ProtocolArgChoices == SeqsUpTo(EntryChoices, MaxProtocolArgs)

\* args.filter
FilterChoices ==
    { <<>>,
      <<M01>>,
      << <<" ">> \o M02 \o <<" ">>, <<>> >>,
      << <<"2", "0", "2", "4">> >>,
      << M01, <<"2", "0", "2", "4", "_", "0", "2">> >> }

Dir(name, children) == [name |-> name, isDir |-> TRUE, children |-> children]

File(name) == [name |-> name, isDir |-> FALSE, children |-> {}]

Tree(exists, entries) == [exists |-> exists, entries |-> entries]

\* EXTRACTED_ROOT: absent, or year-month directories of protocol directories
ExtractedChoices ==
    { Tree(FALSE, {}),
      Tree(TRUE, { Dir(M01, { Dir(NameB, {}), Dir(NameA, {}), File(<<"n">>) }),
                   Dir(M02, { Dir(NameAExp, {}), Dir(NameA, {}) }),
                   File(<<"r">>) }),
      Tree(TRUE, { Dir(M01, {}), Dir(M02, { Dir(NameB, {}) }) }) }

GenTemplateChoices == { {}, {NameA}, {NameAExp, NameB} }

FallbackTemplateChoices == { {}, {<<"a">>} }

OldContent == [by |-> "earlier run"]

\* OUTPUT_ROOT: absent, empty, or holding a.json
DiskChoices ==
    { [outRoot |-> FALSE, outputs |-> <<>>],
      [outRoot |-> TRUE, outputs |-> <<>>],
      [outRoot |-> TRUE, outputs |-> (OutputPath(<<"a">>) :> OldContent)] }

Init ==
    /\ KeyOff
    /\ GenOff
    /\ bpc = "start"
    /\ args \in [protocols : ProtocolArgChoices, filter : FilterChoices,
                 force : BOOLEAN, dry_run : BOOLEAN]
    /\ extracted \in ExtractedChoices
    /\ genTemplates \in GenTemplateChoices
    /\ fbTemplates \in FallbackTemplateChoices
    /\ \E d \in DiskChoices :
          /\ outRoot = d.outRoot
          /\ outputs = d.outputs
          /\ disk0 = d
    /\ protocol_list = <<>>
    /\ idx = 0
    /\ success = 0
    /\ skipped = 0
    /\ failed = 0
    /\ log = <<>>
    /\ exitCode = None

fsVars == <<extracted, genTemplates, fbTemplates>>

\* lines 153-155: the explicit list, else the discovered one
Selection ==
    LET explicit == parse_protocols(args.protocols)
    IN  IF explicit # <<>>
        THEN [raised |-> None, value |-> explicit]
        ELSE collect_protocols(extracted, args.filter)

\* collect_protocols raises: the interpreter prints the traceback, status 1
SelectRaises ==
    /\ bpc = "start"
    /\ Selection.raised # None
    /\ bpc' = "raised"
    /\ exitCode' = 1
    /\ UNCHANGED <<args, fsVars, outRoot, outputs, disk0, protocol_list, idx,
                   success, skipped, failed, log, keyVars, genVars>>

\* lines 157-159: no protocol found
SelectNone ==
    /\ bpc = "start"
    /\ Selection.raised = None
    /\ Selection.value = <<>>
    /\ bpc' = "done"
    /\ exitCode' = 1
    /\ UNCHANGED <<args, fsVars, outRoot, outputs, disk0, protocol_list, idx,
                   success, skipped, failed, log, keyVars, genVars>>

\* lines 153-165: the list is not empty; OUTPUT_ROOT.mkdir(parents, exist_ok)
SelectSome ==
    /\ bpc = "start"
    /\ Selection.raised = None
    /\ Selection.value # <<>>
    /\ protocol_list' = Selection.value
    /\ outRoot' = TRUE
    /\ idx' = 1
    /\ bpc' = "loop"
    /\ UNCHANGED <<args, fsVars, outputs, disk0, success, skipped, failed, log,
                   exitCode, keyVars, genVars>>

InLoop == bpc = "loop" /\ idx <= Len(protocol_list)

Current == protocol_list[idx]

template_path == ResolveTemplate(Current, genTemplates, fbTemplates)

output_path == OutputPath(protocol_to_key(Current))

Entry(outcome, spawned) ==
    [protocol |-> Current, template |-> template_path, output |-> output_path,
     outcome |-> outcome, spawned |-> spawned]

\* lines 184-188
TemplateMissing ==
    /\ InLoop
    /\ ~PathExists(template_path, genTemplates, fbTemplates)
    /\ failed' = failed + 1
    /\ log' = Append(log, Entry("no template", FALSE))
    /\ idx' = idx + 1
    /\ UNCHANGED <<bpc, args, fsVars, outRoot, outputs, disk0, protocol_list,
                   success, skipped, exitCode, keyVars, genVars>>

\* lines 190-194
SkipExisting ==
    /\ InLoop
    /\ PathExists(template_path, genTemplates, fbTemplates)
    /\ output_path \in DOMAIN outputs /\ ~args.force
    /\ skipped' = skipped + 1
    /\ log' = Append(log, Entry("skipped", FALSE))
    /\ idx' = idx + 1
    /\ UNCHANGED <<bpc, args, fsVars, outRoot, outputs, disk0, protocol_list,
                   success, failed, exitCode, keyVars, genVars>>

ReachesCommand ==
    /\ InLoop
    /\ PathExists(template_path, genTemplates, fbTemplates)
    /\ ~(output_path \in DOMAIN outputs /\ ~args.force)

\* lines 196-208
DryRun ==
    /\ ReachesCommand
    /\ args.dry_run
    /\ success' = success + 1
    /\ log' = Append(log, Entry("dry run", FALSE))
    /\ idx' = idx + 1
    /\ UNCHANGED <<bpc, args, fsVars, outRoot, outputs, disk0, protocol_list,
                   skipped, failed, exitCode, keyVars, genVars>>

\* lines 213-215: the child writes output_path and returns 0
ChildSucceeds ==
    /\ ReachesCommand
    /\ ~args.dry_run
    /\ outputs' = (output_path :> [by |-> Current]) @@ outputs
    /\ success' = success + 1
    /\ log' = Append(log, Entry("generated", TRUE))
    /\ idx' = idx + 1
    /\ UNCHANGED <<bpc, args, fsVars, outRoot, disk0, protocol_list,
                   skipped, failed, exitCode, keyVars, genVars>>

\* lines 213-217: the child fails before writing and returns non-zero
ChildFails ==
    /\ ReachesCommand
    /\ ~args.dry_run
    /\ failed' = failed + 1
    /\ log' = Append(log, Entry("child failed", TRUE))
    /\ idx' = idx + 1
    /\ UNCHANGED <<bpc, args, fsVars, outRoot, outputs, disk0, protocol_list,
                   success, skipped, exitCode, keyVars, genVars>>

\* lines 219-226
Finish ==
    /\ bpc = "loop"
    /\ idx > Len(protocol_list)
    /\ exitCode' = ExitStatus(failed)
    /\ bpc' = "done"
    /\ UNCHANGED <<args, fsVars, outRoot, outputs, disk0, protocol_list, idx,
                   success, skipped, failed, log, keyVars, genVars>>

Next ==
    \/ SelectRaises
    \/ SelectNone
    \/ SelectSome
    \/ TemplateMissing
    \/ SkipExisting
    \/ DryRun
    \/ ChildSucceeds
    \/ ChildFails
    \/ Finish

Spec == Init /\ [][Next]_vars

(***************************************************************************)
(* Specification SpecGen: one run of generate_config.py main().            *)
(***************************************************************************)
MaxVarPairs == 2

Lodestar ==
    <<"l", "o", "d", "e", "s", "t", "a", "r">>

LodestarOutput ==
    <<"p", "k", "g", "/", "i", "n", "v", "a", "r", "i", "a", "n", "t", "s",
      "/", "c", "o", "n", "f", "i", "g", "s", "/", "l", "o", "d", "e", "s",
      "t", "a", "r", "-", "d", "y", "n", "a", "m", "i", "c", ".", "j", "s",
      "o", "n">>

LodestarProjectId ==
    <<"l", "o", "d", "e", "s", "t", "a", "r", "-", "l", "o", "c", "a", "l",
      "-", "d", "y", "n", "a", "m", "i", "c">>

LodestarProjectName ==
    <<"L", "o", "d", "e", "s", "t", "a", "r", " ", "P", "r", "o", "t", "o",
      "c", "o", "l", " ", "(", "L", "o", "c", "a", "l", " ", "D", "y", "n",
      "a", "m", "i", "c", ")">>

OutputDirPrefix ==
    <<"p", "k", "g", "/", "i", "n", "v", "a", "r", "i", "a", "n", "t", "s",
      "/", "c", "o", "n", "f", "i", "g", "s", "/">>

JsonSuffix ==
    <<"-", "d", "y", "n", "a", "m", "i", "c", ".", "j", "s", "o", "n">>

LodestarDeploy == "../test/Lodestar/scripts/data/deployed-local.json"

LodestarTemplate == "config/templates/lodestar_dynamic.json.tmpl"

KeyA == <<"a">>

KeyB == <<"b">>

\* DEFAULT_PROJECTS as shipped: absent fields are "" or <<>>
ShippedProjects ==
    (Lodestar :>
        [deploy |-> LodestarDeploy,
         template |-> LodestarTemplate,
         output |-> LodestarOutput,
         vars |-> (KeyProjectId :> LodestarProjectId)
                    @@ (KeyProjectName :> LodestarProjectName)])

\* DEFAULT_PROJECTS with a second entry that only supplies vars
ExtendedProjects ==
    ShippedProjects @@
    (<<"f", "o", "o">> :>
        [deploy |-> "", template |-> "", output |-> <<>>,
         vars |-> (KeyA :> <<"2">>) @@ (KeyB :> <<"3">>)])

RegistryChoices == { ShippedProjects, ExtendedProjects }

\* values of one --var option
VarItems ==
    { <<"b", "=", "4">>,
      <<" ", "a", " ", "=", " ", "5", "=", "6", " ">>,
      <<"p", "r", "o", "j", "e", "c", "t", "_", "i", "d", "=", "x">>,
      <<"a">> }

DeployPath == "d.json"

TemplatePath == "t.tmpl"

OutputArg ==
    <<"o", ".", "j", "s", "o", "n">>

\* the deployment files on disk
DeployFileChoices ==
    { <<>>,
      (DeployPath :> (KeyA :> <<"1">>)),
      (DeployPath :> ((KeyA :> <<"1">>) @@ (KeyProjectId :> <<"d">>))),
      (DeployPath :> ((KeyA :> PyNull) @@ (KeyB :> <<"7">>))),
      (LodestarDeploy :> ((KeyA :> <<"8">>) @@ (KeyConfigPath :> <<"c">>))) }

TemplateList ==
    <<"{", "\"", "i", "d", "\"", ":", "\"", "$", "{", "p", "r", "o", "j",
      "e", "c", "t", "_", "i", "d", "}", "\"", ",", "\"", "l", "i", "s",
      "t", "\"", ":", "[", "\"", "$", "{", "a", "}", "\"", ",", "\"", "\"",
      "]", "}">>

TemplatePlain ==
    <<"{", "\"", "n", "a", "m", "e", "\"", ":", "\"", "$", "p", "r", "o",
      "j", "e", "c", "t", "_", "n", "a", "m", "e", "\"", ",", "\"", "p",
      "a", "t", "h", "\"", ":", "\"", "$", "{", "c", "o", "n", "f", "i",
      "g", "_", "p", "a", "t", "h", "}", "\"", ",", "\"", "c", "o", "n",
      "t", "r", "a", "c", "t", "s", "\"", ":", "[", "\"", "$", "{", "b",
      "}", "\"", "]", "}">>

TemplateArray ==
    <<"[", "\"", "$", "{", "a", "}", "\"", ",", " ", "\"", "$", "{", "b",
      "}", "\"", "]">>

TemplateBroken ==
    <<"{", "\"", "i", "d", "\"", ":", "\"", "$", "{", "p", "r", "o", "j",
      "e", "c", "t", "_", "i", "d", "}", "\"">>

\* the template files on disk: the shipped template, and t.tmpl if any
TemplateFileChoices ==
    { (LodestarTemplate :> TemplateList) } \cup
    { (LodestarTemplate :> TemplateList) @@ (TemplatePath :> t) :
        t \in {TemplateList, TemplatePlain, TemplateArray, TemplateBroken} }

GenInit ==
    /\ KeyOff
    /\ BatchOff
    /\ gpc = "start"
    /\ gargs \in [project : { Lodestar, <<"F", "o", "o">> },
                  deploy : {"", DeployPath},
                  template : {"", TemplatePath},
                  output : { <<>>, OutputArg },
                  var : SeqsUpTo(VarItems, MaxVarPairs)]
    /\ registry \in RegistryChoices
    /\ deployFiles \in DeployFileChoices
    /\ templateFiles \in TemplateFileChoices
    /\ gtemplate_path = None
    /\ goutput_path = None
    /\ merged = <<>>
    /\ mapping = <<>>
    /\ warned = FALSE
    /\ rendered = None
    /\ parsed = FALSE
    /\ config = None
    /\ outFiles = <<>>
    /\ gerror = None
    /\ gexit = None

\* lines 86-91
Project == Lower(gargs.project)

HasDefaults == Project \in DOMAIN registry

DefaultOf(field, absent) == IF HasDefaults THEN registry[Project][field] ELSE absent

deploy_path == IF gargs.deploy # "" THEN gargs.deploy ELSE DefaultOf("deploy", "")

ResolvedTemplate ==
    IF gargs.template # "" THEN gargs.template ELSE DefaultOf("template", "")

ResolvedOutput ==
    IF gargs.output # <<>> THEN gargs.output
    ELSE IF DefaultOf("output", <<>>) # <<>> THEN DefaultOf("output", <<>>)
    ELSE OutputDirPrefix \o Project \o JsonSuffix

\* lines 96-102: the deployment file's fields, none when it is missing
DeploymentFields ==
    IF deploy_path # "" /\ deploy_path \in DOMAIN deployFiles
    THEN deployFiles[deploy_path] ELSE EmptyMap

DeployMissing == deploy_path # "" /\ deploy_path \notin DOMAIN deployFiles

\* lines 93-94: parser.error
NoTemplate ==
    /\ gpc = "start"
    /\ ResolvedTemplate = ""
    /\ gpc' = "exit"
    /\ gerror' = "usage"
    /\ gexit' = 2
    /\ UNCHANGED <<gargs, registry, deployFiles, templateFiles, gtemplate_path,
                   goutput_path, merged, mapping, warned, rendered, parsed,
                   config, outFiles, keyVars, batchVars>>

\* lines 96-105: parse_kv raises, after the warning
BadVar ==
    /\ gpc = "start"
    /\ ResolvedTemplate # ""
    /\ parse_kv(gargs.var).raised # None
    /\ warned' = DeployMissing
    /\ gpc' = "exit"
    /\ gerror' = "ValueError: --var"
    /\ gexit' = 1
    /\ UNCHANGED <<gargs, registry, deployFiles, templateFiles, gtemplate_path,
                   goutput_path, merged, mapping, rendered, parsed, config,
                   outFiles, keyVars, batchVars>>

\* lines 86-108
BuildMapping ==
    /\ gpc = "start"
    /\ ResolvedTemplate # ""
    /\ parse_kv(gargs.var).raised = None
    /\ gtemplate_path' = ResolvedTemplate
    /\ goutput_path' = ResolvedOutput
    /\ warned' = DeployMissing
    /\ merged' = MergeLayers(DeploymentFields, DefaultOf("vars", EmptyMap),
                             parse_kv(gargs.var).value)
    /\ mapping' = ApplyFallbacks(merged', Project, ResolvedOutput)
    /\ gpc' = "mapped"
    /\ UNCHANGED <<gargs, registry, deployFiles, templateFiles, rendered, parsed,
                   config, outFiles, gerror, gexit, keyVars, batchVars>>

\* line 59: read_text raises FileNotFoundError
TemplateUnreadable ==
    /\ gpc = "mapped"
    /\ gtemplate_path \notin DOMAIN templateFiles
    /\ gpc' = "exit"
    /\ gerror' = "FileNotFoundError"
    /\ gexit' = 1
    /\ UNCHANGED <<gargs, registry, deployFiles, templateFiles, gtemplate_path,
                   goutput_path, merged, mapping, warned, rendered, parsed,
                   config, outFiles, keyVars, batchVars>>

Generated == generate_from_template(templateFiles[gtemplate_path], mapping)

\* lines 61-64: the render raises
RenderFails ==
    /\ gpc = "mapped"
    /\ gtemplate_path \in DOMAIN templateFiles
    /\ LET g == Generated
       IN  /\ g.raised # None
           /\ rendered' = g.rendered
           /\ parsed' = g.parsed
           /\ gerror' = IF g.raised = "ValueError" THEN "template incomplete"
                        ELSE g.raised
    /\ gpc' = "exit"
    /\ gexit' = 1
    /\ UNCHANGED <<gargs, registry, deployFiles, templateFiles, gtemplate_path,
                   goutput_path, merged, mapping, warned, config, outFiles,
                   keyVars, batchVars>>

\* line 110
Render ==
    /\ gpc = "mapped"
    /\ gtemplate_path \in DOMAIN templateFiles
    /\ LET g == Generated
       IN  /\ g.raised = None
           /\ rendered' = g.rendered
           /\ config' = g.config
    /\ parsed' = TRUE
    /\ gpc' = "rendered"
    /\ UNCHANGED <<gargs, registry, deployFiles, templateFiles, gtemplate_path,
                   goutput_path, merged, mapping, warned, outFiles, gerror,
                   gexit, keyVars, batchVars>>

\* lines 111-122: the file is written, then the summary is printed
Write ==
    /\ gpc = "rendered"
    /\ outFiles' = (goutput_path :> config) @@ outFiles
    /\ gpc' = "exit"
    /\ gerror' = IF SummaryRaises(config) THEN "summary" ELSE None
    /\ gexit' = IF SummaryRaises(config) THEN 1 ELSE 0
    /\ UNCHANGED <<gargs, registry, deployFiles, templateFiles, gtemplate_path,
                   goutput_path, merged, mapping, warned, rendered, parsed,
                   config, keyVars, batchVars>>

GenNext ==
    \/ NoTemplate
    \/ BadVar
    \/ BuildMapping
    \/ TemplateUnreadable
    \/ RenderFails
    \/ Render
    \/ Write

SpecGen == GenInit /\ [][GenNext]_vars

(***************************************************************************)
(* Specification SpecRender: main() of generate_config.py for project foo  *)
(* on every template text of bounded length, with one deployment field.    *)
(***************************************************************************)
MaxTemplateLen == 5

TemplateAlphabet == {"$", "{", "}", "a", "\""}

\* the deployment file: no field, or the field a
FieldChoices ==
    { EmptyMap,
      (KeyA :> <<"1">>),
      (KeyA :> PyNull),
      (KeyA :> <<"$", "{">>),
      (KeyA :> <<"a", "$">>) }

RenderInit ==
    /\ KeyOff
    /\ BatchOff
    /\ gpc = "start"
    /\ gargs = [project |-> <<"f", "o", "o">>, deploy |-> DeployPath,
                template |-> TemplatePath, output |-> OutputArg, var |-> <<>>]
    /\ registry = ShippedProjects
    /\ \E f \in FieldChoices : deployFiles = (DeployPath :> f)
    /\ \E t \in SeqsUpTo(TemplateAlphabet, MaxTemplateLen) :
          templateFiles = (TemplatePath :> t)
    /\ gtemplate_path = None
    /\ goutput_path = None
    /\ merged = <<>>
    /\ mapping = <<>>
    /\ warned = FALSE
    /\ rendered = None
    /\ parsed = FALSE
    /\ config = None
    /\ outFiles = <<>>
    /\ gerror = None
    /\ gexit = None

RenderNext ==
    \/ BuildMapping
    \/ RenderFails
    \/ Render
    \/ Write

SpecRender == RenderInit /\ [][RenderNext]_vars

(***************************************************************************)
(* Properties of the Config Generator (SpecGen, SpecRender).               *)
(***************************************************************************)
\* the mapping has been built (lines 96-108 ran to the end)
Built == gpc \in {"mapped", "rendered"} \/ (gpc = "exit" /\ gtemplate_path # None)

FallbackValue(k) ==
    IF k = KeyProjectId THEN Lower(gargs.project) \o DynamicSuffix
    ELSE IF k = KeyProjectName THEN Title(Lower(gargs.project)) \o ProjectNameSuffix
    ELSE goutput_path

\* C3: in the mapping, a key's value comes from --var if a pair names it,
\* else from the built-in defaults, else from the deployment file; the three
\* fallbacks fill only keys none of these layers holds.
C3_MappingPrecedence ==
    Built =>
        LET dep == DeploymentFields
            defs == DefaultOf("vars", EmptyMap)
            ov == parse_kv(gargs.var).value
            layered == DOMAIN dep \cup DOMAIN defs \cup DOMAIN ov
        IN  /\ DOMAIN mapping = layered \cup {KeyProjectId, KeyProjectName, KeyConfigPath}
            /\ DOMAIN merged = layered
            /\ \A k \in DOMAIN mapping :
                  mapping[k] = IF k \in DOMAIN ov THEN ov[k]
                               ELSE IF k \in DOMAIN defs THEN defs[k]
                               ELSE IF k \in DOMAIN dep THEN dep[k]
                               ELSE FallbackValue(k)

\* C3 witness: a key held by all three layers with three different values,
\* and project_id supplied by a layer while config_path is a fallback.
C3_Witness ==
    /\ gpc = "mapped"
    /\ \E k \in DOMAIN DeploymentFields \cap DOMAIN DefaultOf("vars", EmptyMap) :
          /\ k \in DOMAIN parse_kv(gargs.var).value
          /\ DeploymentFields[k] # DefaultOf("vars", EmptyMap)[k]
          /\ DefaultOf("vars", EmptyMap)[k] # parse_kv(gargs.var).value[k]
          /\ mapping[k] = parse_kv(gargs.var).value[k]
    /\ KeyProjectId \in DOMAIN merged
    /\ mapping[KeyProjectId] # FallbackValue(KeyProjectId)
    /\ KeyConfigPath \notin DOMAIN merged

\* the scenario of C7: deployment {"a":"1"}, defaults {"a":"2","b":"3"},
\* overrides ["b=4"]
C7_Scenario ==
    /\ Built
    /\ DeploymentFields = (KeyA :> <<"1">>)
    /\ DefaultOf("vars", EmptyMap) = (KeyA :> <<"2">>) @@ (KeyB :> <<"3">>)
    /\ gargs.var = << <<"b", "=", "4">> >>

\* C7 (as claimed): in the scenario the merged mapping is {"a":"1","b":"4"}.
C7_MergedKeepsDeployValue ==
    C7_Scenario => merged = (KeyA :> <<"1">>) @@ (KeyB :> <<"4">>)

\* C7 (amended): in the scenario the merged mapping is {"a":"2","b":"4"}:
\* the default for a overrides the deployment file's.
C7_MergedTakesDefault ==
    C7_Scenario => merged = (KeyA :> <<"2">>) @@ (KeyB :> <<"4">>)

\* C7 witness: the scenario, once the mapping is built.
C7_Witness == C7_Scenario /\ gpc = "mapped" /\ KeyA \in DOMAIN merged

\* the names of the template's placeholders
PlaceholderNames(text) ==
    LET toks == Tokenize(text)
    IN  { toks[i].name : i \in { j \in DOMAIN toks : toks[j].kind \in {"named", "braced"} } }

BracedNames(text) ==
    LET toks == Tokenize(text)
    IN  { toks[i].name : i \in { j \in DOMAIN toks : toks[j].kind = "braced" } }

\* C4 (as claimed): with the deployment file missing the run warns and goes
\* on, the placeholders that no mapping key supplies render as empty
\* strings, and where that text is a config the run writes it and exits 0.
C4_MissingDeployRendersEmpty ==
    ( /\ gpc = "exit"
      /\ DeployMissing
      /\ Built
      /\ gtemplate_path \in DOMAIN templateFiles ) =>
        LET text == templateFiles[gtemplate_path]
            blanks == [k \in PlaceholderNames(text) \ DOMAIN mapping |-> <<>>]
            expected == generate_from_template(text, Update(mapping, blanks))
        IN  /\ warned
            /\ (expected.raised = None /\ ~SummaryRaises(expected.config)) =>
                  /\ gexit = 0
                  /\ goutput_path \in DOMAIN outFiles
                  /\ outFiles[goutput_path] = expected.config

\* text contains sub
ContainsText(text, sub) ==
    \E i \in 1..(Len(text) - Len(sub) + 1) : SubSeq(text, i, i + Len(sub) - 1) = sub

Marker == <<"$", "{">>

RenderDone == gpc \in {"rendered", "exit"} /\ rendered # None

\* what C5 says in both its forms: the render fails as incomplete exactly
\* when the substituted text holds the marker, a ${name} whose key is
\* missing makes it fail, and the failure precedes parsing and writing
C5_Common ==
    LET text == templateFiles[gtemplate_path]
        incomplete == gerror = "template incomplete"
    IN  /\ incomplete <=> ContainsText(rendered, Marker)
        /\ (\E n \in BracedNames(text) : n \notin DOMAIN mapping) => incomplete
        /\ incomplete => ~parsed /\ config = None /\ outFiles = <<>> /\ gexit = 1

\* C5 (as claimed): ... and a template whose placeholders all have keys in
\* the mapping never fails as incomplete.
C5_FailsOnlyForMissingKeys ==
    RenderDone =>
        /\ C5_Common
        /\ (\A n \in PlaceholderNames(templateFiles[gtemplate_path]) :
                n \in DOMAIN mapping)
              => gerror # "template incomplete"

\* every "$" of the template starts a placeholder whose key is in the
\* mapping with a value that holds no "$"
CleanlyResolved(text) ==
    LET toks == Tokenize(text)
    IN  \A i \in DOMAIN toks :
          /\ toks[i].kind \notin {"escaped", "invalid"}
          /\ toks[i].kind \in {"named", "braced"} =>
                /\ toks[i].name \in DOMAIN mapping
                /\ ~Contains(mapping[toks[i].name], "$")

\* C5 (amended): ... and a template in which every "$" starts a placeholder
\* whose key is in the mapping, with values that hold no "$", never fails as
\* incomplete.
C5_FailsExactlyOnMarker ==
    RenderDone =>
        /\ C5_Common
        /\ CleanlyResolved(templateFiles[gtemplate_path])
              => gerror # "template incomplete"

\* C5 witness: a render that failed as incomplete on a ${name} whose key the
\* mapping lacks, before parsing and writing.
C5_Witness ==
    /\ gpc = "exit"
    /\ gerror = "template incomplete"
    /\ \E n \in BracedNames(templateFiles[gtemplate_path]) : n \notin DOMAIN mapping
    /\ ContainsText(rendered, Marker)
    /\ ~parsed
    /\ outFiles = <<>>


(***************************************************************************)
(* Properties of the Batch Driver (specification Spec).                    *)
(***************************************************************************)
TemplateAtNeither(name) ==
    name \notin genTemplates /\ protocol_to_key(name) \notin fbTemplates

\* this step handled Current without a child process, and the loop goes on
HandledWithoutChild ==
    /\ Len(log') = Len(log) + 1
    /\ log'[Len(log')].protocol = Current
    /\ ~log'[Len(log')].spawned
    /\ outputs' = outputs
    /\ idx' = idx + 1
    /\ bpc' = "loop"

\* C1: a protocol whose template is at neither the generated nor the fallback
\* path is counted as failed; otherwise one whose output exists, without
\* --force, is counted as skipped; in both cases no child is spawned, the
\* output files stay as they are and the loop goes on to the next protocol.
C1_MissingTemplateFailsExistingOutputSkips ==
    [][ InLoop =>
          /\ TemplateAtNeither(Current) =>
                /\ failed' = failed + 1
                /\ skipped' = skipped /\ success' = success
                /\ HandledWithoutChild
          /\ ( /\ ~TemplateAtNeither(Current)
               /\ OutputPath(protocol_to_key(Current)) \in DOMAIN outputs
               /\ ~args.force ) =>
                /\ skipped' = skipped + 1
                /\ failed' = failed /\ success' = success
                /\ HandledWithoutChild
      ]_vars

\* C1 witness: a finished run that failed one protocol for its missing
\* template and then skipped another whose output existed.
C1_Witness ==
    /\ bpc = "done"
    /\ \E i, j \in DOMAIN log :
          /\ i < j
          /\ log[i].outcome = "no template"
          /\ log[j].outcome = "skipped"
          /\ log[j].template.root = "fallback"
    /\ outputs = disk0.outputs

DiskUnchanged == outRoot = disk0.outRoot /\ outputs = disk0.outputs

\* C2 (as claimed): with --dry-run the disk after the run, OUTPUT_ROOT
\* included, is the disk before it, and no child process is spawned.
C2_DryRunLeavesDiskUnchanged ==
    args.dry_run =>
        /\ DiskUnchanged
        /\ \A i \in DOMAIN log : ~log[i].spawned
        /\ success = Cardinality({ i \in DOMAIN log : log[i].outcome = "dry run" })

\* C6: the exit code is 1 when a protocol failed or the list is empty, 0
\* otherwise, and the three counters add up to the length of the list.
C6_ExitCodeAndCounts ==
    bpc \in {"done", "raised"} =>
        /\ exitCode = IF failed >= 1 \/ Len(protocol_list) = 0 THEN 1 ELSE 0
        /\ success + skipped + failed = Len(protocol_list)

\* C6 witness: a finished run that skipped a protocol, failed none, exits 0.
C6_Witness ==
    /\ bpc = "done"
    /\ skipped >= 1
    /\ success >= 1
    /\ failed = 0
    /\ exitCode = 0

\* a --filter value that, even with surrounding blanks removed, is neither
\* empty nor seven characters with "-" as the fifth
MalformedFilterGiven ==
    \E i \in DOMAIN args.filter :
        LET item == Strip(args.filter[i])
        IN  item # <<>> /\ (Len(item) # 7 \/ item[5] # "-")

\* C9 (as claimed): a run given a malformed --filter value ends with a
\* fatal error and a non-zero exit before any protocol is processed, any
\* child spawned or anything created, --protocols given or not.
C9_MalformedFilterIsFatal ==
    MalformedFilterGiven =>
        /\ bpc \in {"start", "raised"}
        /\ log = <<>>
        /\ DiskUnchanged
        /\ bpc = "raised" => exitCode # 0

\* C10 (as claimed): any two entries of the processed list have different
\* project keys and different output paths.
C10_DistinctOutputPaths ==
    \A i, j \in DOMAIN protocol_list :
        i # j =>
            /\ protocol_to_key(protocol_list[i]) # protocol_to_key(protocol_list[j])
            /\ OutputPath(protocol_to_key(protocol_list[i])) #
                  OutputPath(protocol_to_key(protocol_list[j]))

\* C10 (amended): two processed protocols resolve to the same output path
\* exactly when their project keys are equal; protocols with different keys
\* never share an output file.
C10_SharedPathOnlyForEqualKeys ==
    \A i, j \in DOMAIN log :
        (log[i].output = log[j].output) <=>
            (protocol_to_key(log[i].protocol) = protocol_to_key(log[j].protocol))

\* C10 witness: a finished run in which two different names shared one
\* output path and a third protocol had its own.
C10_Witness ==
    /\ bpc = "done"
    /\ \E i, j, k \in DOMAIN log :
          /\ log[i].protocol # log[j].protocol
          /\ log[i].output = log[j].output
          /\ log[k].output # log[i].output

(***************************************************************************)
(* Properties of protocol_to_key (specification SpecKey).                  *)
(***************************************************************************)
\* C8 (as claimed): key(key(x)) = key(x) for every name x, and names that
\* differ only in letter case have the same key.
C8_KeyIdempotentCaseInsensitive ==
    /\ kpc = "rekeyed" => rekey = key1
    /\ kpc \in {"keyed", "rekeyed"} => key1 = key2

\* C8 (amended): key(key(x)) = key(x) whenever key(x) neither ends in "_exp"
\* nor starts or ends with whitespace, and names that differ only in letter
\* case have the same key.
C8_KeyIdempotentOnStableKeys ==
    /\ ( /\ kpc = "rekeyed"
         /\ ~EndsWith(key1, ExpSuffix)
         /\ Strip(key1) = key1 ) => rekey = key1
    /\ kpc \in {"keyed", "rekeyed"} => key1 = key2

\* C8 witness: a name with upper-case letters, a space and an "_exp" suffix,
\* and a variant of it in another case, keyed and keyed again.
C8_Witness ==
    /\ kpc = "rekeyed"
    /\ protocol # other
    /\ EndsWith(Lower(protocol), ExpSuffix)
    /\ Contains(protocol, " ")
    /\ key1 # Lower(protocol)
    /\ key1 # <<>>
    /\ rekey = key1

====
